---- MODULE Spec2Model ----
(***************************************************************************)
(* State-machine model of TSPSolver (src/TSPSolver.py): the greedy         *)
(* nearest-neighbour construction, the 2-opt search with don't-look bits   *)
(* and the 3-opt search.  Cities are the indices 0..n-1 of the scenario's  *)
(* city list; a route is a sequence of cities (TLA+ position p+1 holds     *)
(* Python's element p).                                                    *)
(***************************************************************************)
EXTENDS Integers, Sequences, FiniteSets, TLC

VARIABLES n, cost, entry, expired, callerExpired, pc, error,
          start_city_index, visited_cities, current_city, route, bssf,
          dlb, best_solution, improved, dlb_breaker, i, j,
          best_path, combo, result

vars == <<n, cost, entry, expired, callerExpired, pc, error,
          start_city_index, visited_cities, current_city, route, bssf,
          dlb, best_solution, improved, dlb_breaker, i, j,
          best_path, combo, result>>

greedyVars == <<start_city_index, visited_cities, current_city, route, bssf>>
twoOptVars == <<dlb, best_solution, dlb_breaker, i, j>>
threeOptVars == <<best_path, combo>>
inputVars == <<n, cost, entry>>

----------------------------------------------------------------------------
(* Bounds of the model. *)

\* The scenarios have 1..MaxCities cities.
MaxCities == 5
\* Finite edge costs are 0..MaxCost.
MaxCost == 2
\* How far past 2n entries a route that never completes is followed.
HangSlack == 2
\* The scenarios of the termination checks of twoOpt have 1..LiveCities cities.
LiveCities == 4

----------------------------------------------------------------------------
(* Python float arithmetic on costs: finite integers, +inf, -inf and nan. *)

Inf == 1000000
NegInf == 0 - Inf
NaN == Inf + Inf

Neg(x) == IF x = NaN THEN NaN ELSE 0 - x

Add(x, y) ==
    IF x = NaN \/ y = NaN THEN NaN
    ELSE IF x = Inf THEN (IF y = NegInf THEN NaN ELSE Inf)
    ELSE IF x = NegInf THEN (IF y = Inf THEN NaN ELSE NegInf)
    ELSE IF y = Inf \/ y = NegInf THEN y
    ELSE x + y

Sub(x, y) == Add(x, Neg(y))

\* x < y: every comparison with nan is false.
Lt(x, y) == x # NaN /\ y # NaN /\ x < y

----------------------------------------------------------------------------
(* Python list operations. *)

Min(a, b) == IF a < b THEN a ELSE b

\* path[lo:hi] for 0 <= lo, 0 <= hi.
Slice(path, lo, hi) == SubSeq(path, lo + 1, Min(hi, Len(path)))

\* path[lo:]
SliceFrom(path, lo) == SubSeq(path, lo + 1, Len(path))

\* path[::-1]
Reversed(path) == [p \in 1..Len(path) |-> path[Len(path) + 1 - p]]

\* path[k] for -len <= k < len.
At(path, k) == IF k < 0 THEN path[Len(path) + k + 1] ELSE path[k + 1]

----------------------------------------------------------------------------
(* The scenario: the city list and the directed cost function. *)

Cities == 0..(n - 1)

\* The cost functions the scenarios are drawn from.  The finite costs have a
\* part that depends on the direction of travel (they are symmetric when
\* s[1] = s[2]).  The missing edges are none, one directed edge <<x, y>>, or
\* every edge out of city x (written <<x, x>>).
Modulus == MaxCost + 1
Seeds == (0..MaxCost) \X (0..MaxCost) \X (0..MaxCost)
NoBlock == <<0 - 1, 0 - 1>>
Blocks(m) == {NoBlock} \cup ((0..(m - 1)) \X (0..(m - 1)))
IsBlocked(blk, a, b) == a = blk[1] /\ a # b /\ (b = blk[2] \/ blk[2] = blk[1])
CostOf(s, blk, a, b) ==
    IF IsBlocked(blk, a, b) THEN Inf
    ELSE (s[1] * a + s[2] * b + s[3] * a * b) % Modulus

\* City.costTo
costTo(a, b) == cost[<<a, b>>]

\* TSPSolution(route).cost: the consecutive edges added left to right, the
\* closing edge (last city back to the first) last.
RECURSIVE SumChain(_, _, _)
SumChain(r, p, acc) ==
    IF p >= Len(r) THEN Add(acc, costTo(r[Len(r)], r[1]))
    ELSE SumChain(r, p + 1, Add(acc, costTo(r[p], r[p + 1])))

TourCost(r) == SumChain(r, 1, 0)

TSPSolution(r) == [some |-> TRUE, route |-> r, cost |-> TourCost(r)]

None == [some |-> FALSE, route |-> <<>>, cost |-> 0]

----------------------------------------------------------------------------
(* greedy *)

\* The scan of lines 112-121: the first unvisited city whose cost from the
\* current city is below every earlier one; index 0 when none is below inf.
RECURSIVE ScanNearest(_, _, _, _, _)
ScanNearest(k, cur, vis, shortest, next_city_index) ==
    IF k >= n THEN next_city_index
    ELSE IF k \notin vis /\ Lt(costTo(cur, k), shortest)
         THEN ScanNearest(k + 1, cur, vis, costTo(cur, k), k)
         ELSE ScanNearest(k + 1, cur, vis, shortest, next_city_index)

NearestIndex(cur, vis) == ScanNearest(0, cur, vis, Inf, 0)

MaxRouteLen == 2 * n + HangSlack

\* route.append(next_city); a route that never completes is followed up to
\* MaxRouteLen entries.
RouteAppend(r, c) == IF Len(r) < MaxRouteLen THEN Append(r, c) ELSE r

\* Line 103 true, lines 105-108: a new start attempt; cities[start_city_index]
\* raises IndexError past the end of the list.
GreedyAttempt ==
    /\ pc = "g_while"
    /\ ~expired
    /\ IF start_city_index >= n
       THEN /\ pc' = "raised"
            /\ error' = "IndexError"
            /\ UNCHANGED <<visited_cities, current_city, route>>
       ELSE /\ visited_cities' = {start_city_index}
            /\ current_city' = start_city_index
            /\ route' = <<start_city_index>>
            /\ pc' = "g_walk"
            /\ error' = error
    /\ UNCHANGED <<inputVars, expired, callerExpired, start_city_index, bssf,
                   twoOptVars, threeOptVars, improved, result>>

\* Line 103 false: the time allowance is used up, the loop is left.
GreedyTimeout ==
    /\ pc = "g_while"
    /\ expired
    /\ pc' = "g_return"
    /\ UNCHANGED <<inputVars, expired, callerExpired, error, greedyVars,
                   twoOptVars, threeOptVars, improved, result>>

\* Lines 111-128: one iteration of the walk.
GreedyAppend ==
    /\ pc = "g_walk"
    /\ Cardinality(visited_cities) # n
    /\ LET next_city == NearestIndex(current_city, visited_cities)
       IN  /\ route' = RouteAppend(route, next_city)
           /\ visited_cities' = visited_cities \cup {next_city}
           /\ current_city' = next_city
    /\ UNCHANGED <<inputVars, expired, callerExpired, pc, error,
                   start_city_index, bssf,
                   twoOptVars, threeOptVars, improved, result>>

\* Lines 130-138: the attempt's tour; a finite cost ends the search, an
\* infinite one moves on to the next start city.
GreedyAttemptEnd ==
    /\ pc = "g_walk"
    /\ Cardinality(visited_cities) = n
    /\ bssf' = TSPSolution(route)
    /\ IF bssf'.cost # Inf
       THEN /\ pc' = "g_return"
            /\ start_city_index' = start_city_index
       ELSE /\ pc' = "g_while"
            /\ start_city_index' = start_city_index + 1
    /\ UNCHANGED <<inputVars, expired, callerExpired, error,
                   visited_cities, current_city, route,
                   twoOptVars, threeOptVars, improved, result>>

\* Lines 140-146; bssf.cost raises AttributeError while bssf is None.  The
\* result goes to the caller: greedy's own caller (line 146), twoOpt
\* (lines 181-182) or threeOpt (lines 254-255).
GreedyReturn ==
    /\ pc = "g_return"
    /\ IF ~bssf.some
       THEN /\ pc' = "raised"
            /\ error' = "AttributeError"
            /\ UNCHANGED <<best_solution, best_path, improved, result>>
       ELSE /\ error' = error
            /\ CASE entry = "greedy" ->
                      /\ pc' = "done"
                      /\ result' = bssf
                      /\ UNCHANGED <<best_solution, best_path, improved>>
                 [] entry = "twoOpt" ->
                      /\ pc' = "t_while"
                      /\ best_solution' = bssf
                      /\ improved' = TRUE
                      /\ UNCHANGED <<best_path, result>>
                 [] entry = "threeOpt" ->
                      /\ pc' = "h_while"
                      /\ best_path' = bssf.route
                      /\ improved' = TRUE
                      /\ UNCHANGED <<best_solution, result>>
    /\ UNCHANGED <<inputVars, expired, callerExpired, greedyVars,
                   dlb, dlb_breaker, i, j, combo>>

\* The wall clock reaches the allowance the running greedy compares against
\* (line 103).  Called as an entry point this is the caller's allowance.
DeadlinePasses ==
    /\ pc \in {"g_while", "g_walk"}
    /\ ~expired
    /\ expired' = TRUE
    /\ callerExpired' = IF entry = "greedy" THEN TRUE ELSE callerExpired
    /\ UNCHANGED <<inputVars, pc, error, greedyVars,
                   twoOptVars, threeOptVars, improved, result>>

----------------------------------------------------------------------------
(* twoOpt *)

\* cities[(k + 1) % len(cities)]
NextCity(k) == (k + 1) % n

\* Lines 227-231, on the scenario's city list.
lengthDeltaFromTwoOpt(a, b) ==
    Add(Add(Sub(Neg(costTo(a, NextCity(a))), costTo(b, NextCity(b))),
            costTo(a, b)),
        costTo(NextCity(a), NextCity(b)))

\* Lines 233-245.
twoOptSwap(path, v1, v2) ==
    Slice(path, 0, v1) \o Reversed(Slice(path, v1, v2)) \o SliceFrom(path, v2)

\* Line 192: the pairs the partner scan skips.
SkipPair(a, b) == a = b \/ NextCity(a) = b \/ NextCity(b) = a

\* The mutant of Adopt: every exchange with a negative delta is adopted.
AdoptAnyExchange(new_cost, best_cost) == TRUE

\* The mutant of Adopt with <= for <: a tour of equal cost is adopted too.
AdoptNotWorse(new_cost, best_cost) == ~Lt(best_cost, new_cost)

\* Line 202: the new tour replaces the current best.
Adopt(new_cost, best_cost) == Lt(new_cost, best_cost)

\* dlb[key] = value on a dictionary.
DictSet(d, key, value) ==
    [c \in (DOMAIN d) \cup {key} |-> IF c = key THEN value ELSE d[c]]

\* Lines 196-199.
ClearDlb(d, a, b) ==
    DictSet(DictSet(DictSet(DictSet(d, a, FALSE), NextCity(a), FALSE),
                    b, FALSE),
            NextCity(b), FALSE)

\* Lines 183-185: another pass over the points.
TwoOptPass ==
    /\ pc = "t_while"
    /\ improved
    /\ improved' = FALSE
    /\ i' = 0
    /\ pc' = "t_for_i"
    /\ UNCHANGED <<inputVars, expired, callerExpired, error, greedyVars,
                   dlb, best_solution, dlb_breaker, j, threeOptVars, result>>

\* Line 183 false, lines 211-217.
TwoOptReturn ==
    /\ pc = "t_while"
    /\ ~improved
    /\ result' = best_solution
    /\ pc' = "done"
    /\ UNCHANGED <<inputVars, expired, callerExpired, error, greedyVars,
                   twoOptVars, threeOptVars, improved>>

\* Lines 185-189: the next point of the pass; a point whose don't-look bit
\* is set is passed over.
TwoOptPoint ==
    /\ pc = "t_for_i"
    /\ IF i >= n - 1
       THEN /\ pc' = "t_while"
            /\ UNCHANGED <<i, j, dlb_breaker>>
       ELSE IF dlb[i]
       THEN /\ i' = i + 1
            /\ UNCHANGED <<pc, j, dlb_breaker>>
       ELSE /\ dlb_breaker' = FALSE
            /\ j' = 0
            /\ pc' = "t_for_j"
            /\ i' = i
    /\ UNCHANGED <<inputVars, expired, callerExpired, error, greedyVars,
                   dlb, best_solution, threeOptVars, improved, result>>

\* Lines 191-205: one partner of the scan.
TwoOptEval ==
    /\ pc = "t_for_j"
    /\ j < n - 1
    /\ j' = j + 1
    /\ IF SkipPair(i, j) \/ ~Lt(lengthDeltaFromTwoOpt(i, j), 0)
       THEN UNCHANGED <<dlb, best_solution, improved, dlb_breaker>>
       ELSE \E new_path \in {twoOptSwap(best_solution.route, i, j)} :
            \E new_solution \in {TSPSolution(new_path)} :
                /\ dlb' = ClearDlb(dlb, i, j)
                /\ IF Adopt(new_solution.cost, best_solution.cost)
                   THEN /\ improved' = TRUE
                        /\ best_solution' = new_solution
                        /\ dlb_breaker' = TRUE
                   ELSE UNCHANGED <<best_solution, improved, dlb_breaker>>
    /\ UNCHANGED <<inputVars, expired, callerExpired, pc, error, greedyVars,
                   i, threeOptVars, result>>

\* Lines 207-209: the end of the scan of point i.
TwoOptEndScan ==
    /\ pc = "t_for_j"
    /\ j >= n - 1
    /\ IF dlb_breaker
       THEN /\ pc' = "t_while"
            /\ UNCHANGED <<dlb, i>>
       ELSE /\ dlb' = DictSet(dlb, i, TRUE)
            /\ i' = i + 1
            /\ pc' = "t_for_i"
    /\ UNCHANGED <<inputVars, expired, callerExpired, error, greedyVars,
                   best_solution, dlb_breaker, j, threeOptVars, improved,
                   result>>

----------------------------------------------------------------------------
(* threeOpt *)

\* Lines 296-300: the generator's triples, in the order it yields them.
\* The mutant of KLoop: k runs up to n for every i.
RECURSIVE KLoopAlwaysWraps(_, _, _, _)
KLoopAlwaysWraps(m, ci, cj, ck) ==
    IF ck >= m + 1 THEN <<>>
    ELSE <<<<ci, cj, ck>>>> \o KLoopAlwaysWraps(m, ci, cj, ck + 1)

RECURSIVE KLoop(_, _, _, _)
KLoop(m, ci, cj, ck) ==
    IF ck >= m + (IF ci > 0 THEN 1 ELSE 0) THEN <<>>
    ELSE <<<<ci, cj, ck>>>> \o KLoop(m, ci, cj, ck + 1)

RECURSIVE JLoop(_, _, _)
JLoop(m, ci, cj) ==
    IF cj >= m THEN <<>>
    ELSE KLoop(m, ci, cj, cj + 2) \o JLoop(m, ci, cj + 1)

RECURSIVE ILoop(_, _)
ILoop(m, ci) ==
    IF ci >= m THEN <<>>
    ELSE JLoop(m, ci, ci + 2) \o ILoop(m, ci + 1)

allPossibleSegmentCombinations(m) == ILoop(m, 0)

\* Lines 306-345: the reduction of a pattern, from the six boundary cities.
calculateThreeOptSwap(path, ci, cj, ck, case) ==
    LET X1 == At(path, ci - 1)
        X2 == At(path, ci)
        Y1 == At(path, cj - 1)
        Y2 == At(path, cj)
        Z1 == At(path, ck - 1)
        Z2 == At(path, ck % Len(path))
        all3 == Add(Add(costTo(X1, X2), costTo(Y1, Y2)), costTo(Z1, Z2))
        delete_length ==
            CASE case = 0 -> 0
              [] case = 1 -> Add(costTo(X1, X2), costTo(Z1, Z2))
              [] case = 2 -> Add(costTo(Y1, Y2), costTo(Z1, Z2))
              [] case = 3 -> Add(costTo(X1, X2), costTo(Y1, Y2))
              [] OTHER -> all3
        add_length ==
            CASE case = 0 -> 0
              [] case = 1 -> Add(costTo(X1, Z1), costTo(X2, Z2))
              [] case = 2 -> Add(costTo(Y1, Z1), costTo(Y2, Z2))
              [] case = 3 -> Add(costTo(X1, Y1), costTo(X2, Y2))
              [] case = 4 ->
                   Add(Add(costTo(X1, Y1), costTo(X2, Z1)), costTo(Y2, Z2))
              [] case = 5 ->
                   Add(Add(costTo(X1, Z1), costTo(Y2, X2)), costTo(Y1, Z2))
              [] case = 6 ->
                   Add(Add(costTo(X1, Y2), costTo(Z1, Y1)), costTo(X2, Z2))
              [] OTHER ->
                   Add(Add(costTo(X1, Y2), costTo(Z1, X2)), costTo(Y1, Z2))
    IN  Sub(delete_length, add_length)

\* Lines 350-355: the three segments the cuts split the tour into; the first
\* one wraps around the end of the list.
segment_1(path, ci, ck) ==
    IF (ci - 1) < (ck % Len(path))
    THEN SliceFrom(path, ck % Len(path)) \o Slice(path, 0, ci)
    ELSE Slice(path, ck % Len(path), ci)

segment_2(path, ci, cj) == Slice(path, ci, cj)

segment_3(path, cj, ck) == Slice(path, cj, ck)

\* Lines 347-382: the tour rebuilt from its three segments.
reverseSegments(path, ci, cj, ck, case) ==
    LET s1 == segment_1(path, ci, ck)
        s2 == segment_2(path, ci, cj)
        s3 == segment_3(path, cj, ck)
    IN  CASE case = 0 -> path
          [] case = 1 -> Reversed(s1) \o s2 \o s3
          [] case = 2 -> s1 \o s2 \o Reversed(s3)
          [] case = 3 -> s1 \o Reversed(s2) \o s3
          [] case = 4 -> s1 \o Reversed(s2) \o Reversed(s3)
          [] case = 5 -> Reversed(s1) \o Reversed(s2) \o s3
          [] case = 6 -> Reversed(s1) \o s2 \o Reversed(s3)
          [] OTHER -> Reversed(s1) \o Reversed(s2) \o Reversed(s3)

\* Line 279: max(opt_cases, key=opt_cases.get) keeps the first case no later
\* case exceeds.
RECURSIVE MaxCase(_, _, _, _, _, _)
MaxCase(path, ci, cj, ck, case, best) ==
    IF case > 7 THEN best
    ELSE IF Lt(calculateThreeOptSwap(path, ci, cj, ck, best),
               calculateThreeOptSwap(path, ci, cj, ck, case))
         THEN MaxCase(path, ci, cj, ck, case + 1, case)
         ELSE MaxCase(path, ci, cj, ck, case + 1, best)

BestCase(path, ci, cj, ck) == MaxCase(path, ci, cj, ck, 1, 0)

\* The mutant of Improves with >= for >: a best case that changes nothing is
\* applied too.
NotWorsens(reduction) == ~Lt(reduction, 0)

\* Line 281: the best case reduces the cost of the tour.
Improves(reduction) == Lt(0, reduction)

\* Lines 256-263: another pass over the triples.
ThreeOptPass ==
    /\ pc = "h_while"
    /\ improved
    /\ improved' = FALSE
    /\ combo' = 1
    /\ pc' = "h_for"
    /\ UNCHANGED <<inputVars, expired, callerExpired, error, greedyVars,
                   twoOptVars, best_path, result>>

\* Line 256 false, lines 287-294.
ThreeOptReturn ==
    /\ pc = "h_while"
    /\ ~improved
    /\ result' = TSPSolution(best_path)
    /\ pc' = "done"
    /\ UNCHANGED <<inputVars, expired, callerExpired, error, greedyVars,
                   twoOptVars, threeOptVars, improved>>

\* Lines 263-285: one triple of the pass, or the end of the pass.
ThreeOptTriple ==
    /\ pc = "h_for"
    /\ \E combos \in {allPossibleSegmentCombinations(n)} :
           IF combo > Len(combos)
           THEN /\ pc' = "h_while"
                /\ UNCHANGED <<best_path, improved, combo>>
           ELSE \E ci \in {combos[combo][1]}, cj \in {combos[combo][2]},
                   ck \in {combos[combo][3]} :
                \E best_case \in {BestCase(best_path, ci, cj, ck)} :
                    IF Improves(calculateThreeOptSwap(best_path, ci, cj, ck,
                                                      best_case))
                    THEN /\ best_path' =
                              reverseSegments(best_path, ci, cj, ck, best_case)
                         /\ improved' = TRUE
                         /\ pc' = "h_while"
                         /\ combo' = combo
                    ELSE /\ combo' = combo + 1
                         /\ UNCHANGED <<best_path, improved, pc>>
    /\ UNCHANGED <<inputVars, expired, callerExpired, error, greedyVars,
                   twoOptVars, result>>

\* The wall clock reaches the time_allowance twoOpt or threeOpt was called
\* with (lines 171 and 248).
CallerDeadlinePasses ==
    /\ entry # "greedy"
    /\ pc \notin {"done", "raised"}
    /\ ~callerExpired
    /\ callerExpired' = TRUE
    /\ UNCHANGED <<inputVars, expired, pc, error, greedyVars,
                   twoOptVars, threeOptVars, improved, result>>

----------------------------------------------------------------------------

\* The state on entry to greedy (lines 95-100), for a scenario and a caller.
InitFor(entries) ==
    /\ n \in 1..MaxCities
    /\ \E s \in Seeds, blk \in Blocks(n) :
         cost = [e \in (0..(n - 1)) \X (0..(n - 1)) |->
                     CostOf(s, blk, e[1], e[2])]
    /\ entry \in entries
    /\ callerExpired \in BOOLEAN
    /\ expired = IF entry = "greedy" THEN callerExpired ELSE FALSE
    /\ pc = "g_while"
    /\ error = "none"
    /\ start_city_index = 0
    /\ visited_cities = {}
    /\ current_city = 0
    /\ route = <<>>
    /\ bssf = None
    /\ dlb = [c \in 0..(n - 2) |-> FALSE]
    /\ best_solution = None
    /\ improved = FALSE
    /\ dlb_breaker = FALSE
    /\ i = 0
    /\ j = 0
    /\ best_path = <<>>
    /\ combo = 0
    /\ result = None

InitGreedy == InitFor({"greedy"})

NextGreedy ==
    \/ GreedyAttempt
    \/ GreedyTimeout
    \/ GreedyAppend
    \/ GreedyAttemptEnd
    \/ GreedyReturn
    \/ DeadlinePasses

SpecGreedy == InitGreedy /\ [][NextGreedy]_vars

InitTwoOpt == InitFor({"twoOpt"})

NextTwoOpt ==
    \/ GreedyAttempt
    \/ GreedyTimeout
    \/ GreedyAppend
    \/ GreedyAttemptEnd
    \/ GreedyReturn
    \/ DeadlinePasses
    \/ CallerDeadlinePasses
    \/ TwoOptPass
    \/ TwoOptReturn
    \/ TwoOptPoint
    \/ TwoOptEval
    \/ TwoOptEndScan

SpecTwoOpt == InitTwoOpt /\ [][NextTwoOpt]_vars

\* twoOpt's own steps (lines 183-217).
TwoOptStep ==
    \/ TwoOptPass
    \/ TwoOptReturn
    \/ TwoOptPoint
    \/ TwoOptEval
    \/ TwoOptEndScan

\* twoOpt never reads its time_allowance, so the caller's deadline is left
\* out of the runs termination is checked on.
InitTwoOptLive == InitFor({"twoOpt"}) /\ n <= LiveCities /\ ~callerExpired

NextTwoOptLive ==
    \/ GreedyAttempt
    \/ GreedyTimeout
    \/ GreedyAppend
    \/ GreedyAttemptEnd
    \/ GreedyReturn
    \/ DeadlinePasses
    \/ TwoOptPass
    \/ TwoOptReturn
    \/ TwoOptPoint
    \/ TwoOptEval
    \/ TwoOptEndScan

\* The interpreter keeps executing twoOpt's loops: a step of twoOpt that
\* can be taken is taken.
SpecTwoOptFair ==
    InitTwoOptLive /\ [][NextTwoOptLive]_vars /\ WF_vars(TwoOptStep)

InitThreeOpt == InitFor({"threeOpt"})

NextThreeOpt ==
    \/ GreedyAttempt
    \/ GreedyTimeout
    \/ GreedyAppend
    \/ GreedyAttemptEnd
    \/ GreedyReturn
    \/ DeadlinePasses
    \/ CallerDeadlinePasses
    \/ ThreeOptPass
    \/ ThreeOptReturn
    \/ ThreeOptTriple

SpecThreeOpt == InitThreeOpt /\ [][NextThreeOpt]_vars

\* threeOpt's own steps (lines 256-294).
ThreeOptStep ==
    \/ ThreeOptPass
    \/ ThreeOptReturn
    \/ ThreeOptTriple

\* threeOpt never reads its time_allowance, so the caller's deadline is left
\* out of the runs termination is checked on.
InitThreeOptLive == InitFor({"threeOpt"}) /\ ~callerExpired

NextThreeOptLive ==
    \/ GreedyAttempt
    \/ GreedyTimeout
    \/ GreedyAppend
    \/ GreedyAttemptEnd
    \/ GreedyReturn
    \/ DeadlinePasses
    \/ ThreeOptPass
    \/ ThreeOptReturn
    \/ ThreeOptTriple

\* The interpreter keeps executing threeOpt's loops.
SpecThreeOptFair ==
    InitThreeOptLive /\ [][NextThreeOptLive]_vars /\ WF_vars(ThreeOptStep)

\* Every entry point.
Init == InitFor({"greedy", "twoOpt", "threeOpt"})

Next ==
    \/ GreedyAttempt
    \/ GreedyTimeout
    \/ GreedyAppend
    \/ GreedyAttemptEnd
    \/ GreedyReturn
    \/ DeadlinePasses
    \/ CallerDeadlinePasses
    \/ TwoOptPass
    \/ TwoOptReturn
    \/ TwoOptPoint
    \/ TwoOptEval
    \/ TwoOptEndScan
    \/ ThreeOptPass
    \/ ThreeOptReturn
    \/ ThreeOptTriple

Spec == Init /\ [][Next]_vars

----------------------------------------------------------------------------
(* Notions the properties are stated in. *)

\* r holds every city exactly once.
IsPermutation(r) ==
    /\ Len(r) = n
    /\ {r[p] : p \in 1..Len(r)} = Cities

\* x <= y on costs.
Le(x, y) == ~Lt(y, x)

InTwoOpt == entry = "twoOpt" /\ pc \in {"t_while", "t_for_i", "t_for_j", "done"}
InThreeOpt == entry = "threeOpt" /\ pc \in {"h_while", "h_for", "done"}

\* The nearest-neighbour tour from start city s: at each step the unvisited
\* city of least cost from the current one, the lowest index among equals.
NearestUnvisited(cur, vis) ==
    CHOOSE c \in Cities \ vis :
        \A d \in Cities \ vis :
            \/ costTo(cur, c) < costTo(cur, d)
            \/ costTo(cur, c) = costTo(cur, d) /\ c <= d

RECURSIVE ExtendNearest(_)
ExtendNearest(r) ==
    IF Len(r) = n THEN r
    ELSE ExtendNearest(Append(r,
             NearestUnvisited(r[Len(r)], {r[p] : p \in 1..Len(r)})))

NearestNeighbourTour(s) == ExtendNearest(<<s>>)

FeasibleStarts == {s \in Cities : TourCost(NearestNeighbourTour(s)) # Inf}

SmallestFeasibleStart ==
    CHOOSE s \in FeasibleStarts : \A t \in FeasibleStarts : s <= t

\* The 2-opt delta of the tour edges leaving positions p and q of r.
TourNext(r, p) == r[(p % Len(r)) + 1]
TourDelta(r, p, q) ==
    Add(Add(Sub(Neg(costTo(r[p], TourNext(r, p))),
                costTo(r[q], TourNext(r, q))),
            costTo(r[p], r[q])),
        costTo(TourNext(r, p), TourNext(r, q)))

AllCostsFinite == \A e \in DOMAIN cost : cost[e] < Inf

----------------------------------------------------------------------------
(* The properties. *)

\* C1: every tour greedy returns, and every tour twoOpt or threeOpt holds as
\* its current best, is a permutation of the cities: n entries, every city
\* exactly once.
C1_TourIsPermutation ==
    /\ (entry = "greedy" /\ pc = "done") => IsPermutation(result.route)
    /\ InTwoOpt => IsPermutation(best_solution.route)
    /\ InThreeOpt => IsPermutation(best_path)

\* C2: the tour twoOpt returns costs no more than the greedy tour it started
\* from, and no step of the search raises the cost of the current best tour.
C2_TwoOptNeverWorse ==
    /\ []((entry = "twoOpt" /\ pc = "done")
            => Le(TourCost(result.route), TourCost(bssf.route)))
    /\ [][(InTwoOpt /\ InTwoOpt')
            => Le(TourCost(best_solution'.route),
                  TourCost(best_solution.route))]_vars

\* C2 witness: twoOpt has returned a tour strictly cheaper than the greedy
\* tour, so an exchange was adopted on the way.
C2_Witness ==
    /\ entry = "twoOpt"
    /\ pc = "done"
    /\ Lt(TourCost(result.route), TourCost(bssf.route))

\* C3: the tour threeOpt returns costs no more, re-summed in full, than the
\* greedy tour it started from, and no applied reconnection raises the
\* re-summed cost of the current tour.
C3_ThreeOptNeverWorse ==
    /\ []((entry = "threeOpt" /\ pc = "done")
            => Le(TourCost(result.route), TourCost(bssf.route)))
    /\ [][(InThreeOpt /\ InThreeOpt')
            => Le(TourCost(best_path'), TourCost(best_path))]_vars

\* C4: the tour twoOpt returns is a 2-opt local optimum: no two of its edges
\* with four distinct end points have a negative exchange delta.
C4_TwoOptLocalOptimum ==
    (entry = "twoOpt" /\ pc = "done") =>
        \A p, q \in 1..Len(result.route) :
            LET r == result.route
            IN  Cardinality({r[p], TourNext(r, p), r[q], TourNext(r, q)}) = 4
                    => ~Lt(TourDelta(r, p, q), 0)

\* C5: for every pair (i, j) twoOpt is about to evaluate, the delta it
\* computes is the re-summed cost of the swapped tour less the re-summed
\* cost of the current tour.
C5_TwoOptDeltaIsCostChange ==
    (entry = "twoOpt" /\ pc = "t_for_j" /\ j < n - 1 /\ ~SkipPair(i, j)) =>
        lengthDeltaFromTwoOpt(i, j) =
            Sub(TourCost(twoOptSwap(best_solution.route, i, j)),
                TourCost(best_solution.route))

\* C6: under a finite cost function, for the current tour of threeOpt, every
\* enumerated triple and every pattern 1..7, the computed reduction is the
\* re-summed cost of the tour less the re-summed cost of the rebuilt tour.
C6_ThreeOptReductionIsCostChange ==
    (InThreeOpt /\ AllCostsFinite) =>
        \A t \in 1..Len(allPossibleSegmentCombinations(n)) :
            \A case \in 1..7 :
                LET c == allPossibleSegmentCombinations(n)[t]
                IN  calculateThreeOptSwap(best_path, c[1], c[2], c[3], case) =
                        Sub(TourCost(best_path),
                            TourCost(reverseSegments(best_path,
                                                     c[1], c[2], c[3], case)))

\* C7: when greedy returns before its allowance is used up and some start
\* city has a finite-cost nearest-neighbour tour, the result is the
\* nearest-neighbour tour from the smallest such start city.
C7_GreedyReturnsNearestNeighbourTour ==
    (entry = "greedy" /\ pc = "done" /\ ~expired /\ FeasibleStarts # {}) =>
        result.route = NearestNeighbourTour(SmallestFeasibleStart)

\* C8: when no start city has a finite-cost nearest-neighbour tour, greedy
\* does not raise while its allowance lasts and its start index stays within
\* 0..n-1.
C8_GreedyNeverRaises ==
    (entry = "greedy" /\ ~expired /\ FeasibleStarts = {}) =>
        /\ pc # "raised"
        /\ start_city_index \in 0..(n - 1)

\* C9: once the allowance is used up, greedy ends by returning the tour of
\* its last attempt (of infinite cost, maybe), never by raising, also when
\* no attempt was begun.
C9_GreedyTimeoutReturnsLastAttempt ==
    (entry = "greedy" /\ expired /\ pc \in {"g_return", "done", "raised"}) =>
        /\ pc # "raised"
        /\ bssf.some
        /\ pc = "done" => result = bssf

\* C10: twoOpt and threeOpt start no outer pass once the caller's allowance
\* is used up, and the greedy construction they run starts no attempt then
\* either.
C10_NoPassAfterDeadline ==
    [][(\/ pc \in {"t_while", "h_while"} /\ pc' \in {"t_for_i", "h_for"}
        \/ entry # "greedy" /\ pc = "g_while" /\ pc' = "g_walk")
          => ~callerExpired]_vars

\* C11: once greedy has handed twoOpt its initial tour, twoOpt returns: the
\* flag that asks for another outer pass is raised only by a step that
\* strictly lowers the cost of the current best tour, every don't-look bit
\* that is read exists, and the search reaches its return.
C11_TwoOptTerminates ==
    /\ [][(pc = "t_for_j" /\ ~improved /\ improved')
            => Lt(best_solution'.cost, best_solution.cost)]_vars
    /\ []((pc = "t_for_i" /\ i < n - 1) => i \in DOMAIN dlb)
    /\ (entry = "twoOpt" /\ pc = "t_while") ~> (pc = "done")

\* C11 witness: a repeated outer pass is under way, after an exchange has
\* lowered the cost below that of the greedy tour.
C11_Witness ==
    /\ entry = "twoOpt"
    /\ pc = "t_for_i"
    /\ Lt(best_solution.cost, bssf.cost)

\* C12: under a finite cost function, once greedy has handed threeOpt its
\* initial tour, threeOpt reaches a pass without an improving pattern and
\* returns.
C12_ThreeOptTerminates ==
    (entry = "threeOpt" /\ pc = "h_while" /\ AllCostsFinite) ~> (pc = "done")

\* C13: the walk of a start attempt never visits a city twice, so it ends
\* after n - 1 steps with a route that holds every city exactly once; an
\* attempt whose walk met a dead end ends with a tour of infinite cost.
C13_AttemptVisitsEachCityOnce ==
    (pc = "g_walk") =>
        /\ Len(route) <= n
        /\ Cardinality({route[p] : p \in 1..Len(route)}) = Len(route)
        /\ Cardinality(visited_cities) = n => IsPermutation(route)

\* C14: once an exchange has been adopted in the partner scan of point i,
\* no further partner of that scan is evaluated: the scan has ended.
C14_ScanEndsAtAdoption ==
    ~(/\ entry = "twoOpt"
      /\ pc = "t_for_j"
      /\ dlb_breaker
      /\ j < n - 1
      /\ ~SkipPair(i, j))

\* The 2-opt exchange of the tour edges leaving positions a < b of path: the
\* positions a+1..b are reversed, every other position is kept.
SegmentReversed(path, a, b) ==
    [p \in 1..Len(path) |->
        IF a + 2 <= p /\ p <= b + 1 THEN path[(a + b + 3) - p] ELSE path[p]]

\* C15: for every pair (i, j), i < j, whose exchange twoOpt applies, the tour
\* twoOptSwap builds is the current tour with the positions i+1..j reversed
\* and every other position unchanged.
C15_SwapReversesNextToPartner ==
    (/\ entry = "twoOpt"
     /\ pc = "t_for_j"
     /\ j < n - 1
     /\ i < j
     /\ ~SkipPair(i, j)
     /\ Lt(lengthDeltaFromTwoOpt(i, j), 0)) =>
        twoOptSwap(best_solution.route, i, j) =
            SegmentReversed(best_solution.route, i, j)

\* The edges of the cyclic tour r, without direction.
TourEdges(r) == {{r[p], TourNext(r, p)} : p \in 1..Len(r)}

\* C16: when twoOpt adopts an exchange, no end point of an edge the exchange
\* removes from the current tour has its don't-look bit set afterwards.
C16_RemovedEndpointsLookedAt ==
    [][(pc = "t_for_j" /\ best_solution' # best_solution) =>
          \A e \in TourEdges(best_solution.route)
                       \ TourEdges(best_solution'.route) :
              \A c \in e : ~(c \in DOMAIN dlb' /\ dlb'[c])]_vars

\* C17: the scan of a point has evaluated every partner q whose edge shares
\* no end point with the edge of the point when it ends, the last point
\* included; and a pass that runs to its end has scanned every point that
\* has such a partner and whose don't-look bit is not set, the last point
\* included.
C17_ClosingEdgeIsCandidate ==
    /\ (entry = "twoOpt" /\ pc = "t_for_j" /\ j >= n - 1) =>
           \A q \in Cities : ~SkipPair(i, q) => q < j
    /\ (entry = "twoOpt" /\ pc = "t_for_i" /\ i >= n - 1) =>
           \A p \in Cities :
               (/\ \E q \in Cities : ~SkipPair(p, q)
                /\ ~(p \in DOMAIN dlb /\ dlb[p])) => p < i

\* The points of a sequence.
Points(r) == {r[p] : p \in 1..Len(r)}

\* C18: every enumerated triple (ci, cj, ck) has 0 <= ci < cj < ck <= n, with
\* ck = n only when ci > 0, and cuts the current tour of threeOpt into three
\* non-empty segments that, put one after the other, are the tour rotated to
\* start at cut ck; on a tour that holds every city once the segments share
\* no city and hold all of them.
C18_TriplesSplitTour ==
    InThreeOpt =>
        \A t \in 1..Len(allPossibleSegmentCombinations(n)) :
            LET c == allPossibleSegmentCombinations(n)[t]
                s1 == segment_1(best_path, c[1], c[3])
                s2 == segment_2(best_path, c[1], c[2])
                s3 == segment_3(best_path, c[2], c[3])
                kk == c[3] % Len(best_path)
            IN  /\ 0 <= c[1] /\ c[1] < c[2] /\ c[2] < c[3] /\ c[3] <= n
                /\ c[3] = n => c[1] > 0
                /\ s1 # <<>> /\ s2 # <<>> /\ s3 # <<>>
                /\ s1 \o s2 \o s3 =
                       SliceFrom(best_path, kk) \o Slice(best_path, 0, kk)
                /\ IsPermutation(best_path) =>
                       /\ Points(s1) \cap Points(s2) = {}
                       /\ Points(s1) \cap Points(s3) = {}
                       /\ Points(s2) \cap Points(s3) = {}
                       /\ Points(s1) \cup Points(s2) \cup Points(s3) = Cities

\* C18 witness: threeOpt is at a triple whose last cut is n, so the first
\* segment is the head of the list, on a tour that holds every city once.
C18_Witness ==
    /\ entry = "threeOpt"
    /\ pc = "h_for"
    /\ combo <= Len(allPossibleSegmentCombinations(n))
    /\ allPossibleSegmentCombinations(n)[combo][3] = n
    /\ IsPermutation(best_path)

\* C19: threeOpt examines the triples in the order of the enumeration, and
\* every step it takes at a triple is one of two.  At a triple with a pattern
\* of positive reduction, a pattern whose reduction no other of the seven
\* exceeds is applied and the pass ends, so that the next triple examined is
\* the first of a new enumeration on the new tour; at a triple without such
\* a pattern the tour is kept and the next triple of the enumeration follows.
C19_FirstImprovingTripleBestPattern ==
    /\ [][(pc = "h_for" /\ combo <= Len(allPossibleSegmentCombinations(n))
             /\ callerExpired' = callerExpired) =>
            LET c == allPossibleSegmentCombinations(n)[combo]
                red(case) ==
                    calculateThreeOptSwap(best_path, c[1], c[2], c[3], case)
            IN  IF \E case \in 1..7 : Lt(0, red(case))
                THEN /\ \E case \in 1..7 :
                           /\ Lt(0, red(case))
                           /\ \A other \in 1..7 : ~Lt(red(case), red(other))
                           /\ best_path' = reverseSegments(best_path,
                                                c[1], c[2], c[3], case)
                     /\ pc' = "h_while"
                     /\ improved'
                ELSE /\ best_path' = best_path
                     /\ pc' = "h_for"
                     /\ combo' = combo + 1]_vars
    /\ [][(pc = "h_while" /\ pc' = "h_for") => combo' = 1]_vars

\* C19 witness: after a reconnection has been applied, the first triple of a
\* new enumeration is examined on the new tour.
C19_Witness ==
    /\ entry = "threeOpt"
    /\ pc = "h_for"
    /\ combo = 1
    /\ Len(allPossibleSegmentCombinations(n)) > 0
    /\ best_path # bssf.route

====
